---------------------------- MODULE Spec2Model ----------------------------
(***************************************************************************)
(* Model of secret_store/src/listener/service_contract.rs:                 *)
(* OnChainServiceContract (update, is_actual, read_logs,                   *)
(* read_pending_requests, publish_server_key) and PendingRequestsIterator. *)
(*                                                                         *)
(* The cached contract handle is an Arc<SecretStoreService> behind a       *)
(* parking_lot RwLock.  A handle is modelled as [address, id]: id is the   *)
(* identity of the allocation (every SecretStoreService::new is a new id). *)
(* Each caller thread runs one operation at a time; an operation is split  *)
(* into steps exactly where the code acquires or releases the lock or      *)
(* talks to the chain client.  Calls to the chain (registry, count, item,  *)
(* sign, encode, transact) return any of their possible outcomes.          *)
(*                                                                         *)
(* Spec composes every operation from every thread.  SpecCache,            *)
(* SpecPending, SpecPublish, SpecLogs and SpecMigration are the same       *)
(* actions restricted to one consumer operation beside update().           *)
(***************************************************************************)
EXTENDS Integers, Sequences, FiniteSets, TLC

\* ---------------------------------------------------------------- bounds
MaxAddr == 2
MaxHandles == 3
MaxLen == 2
MaxBlock == 2
MaxPublished == 2

\* The caller threads: two, so that any two calls can overlap.
Threads == {1, 2}
\* Address::default() is the zero address.
Zero == 0
Addresses == 0..MaxAddr
\* Option<T>: None is the empty sequence, Some(x) is <<x>>.
None == <<>>
Some(x) == <<x>>
\* What Client::registry_address can return: no entry, or a non-zero address.
RegVals == {None} \cup {Some(a) : a \in Addresses \ {Zero}}
Blocks == 1..MaxBlock

\* hash::keccak, an opaque injective digest.
Keccak(x) == <<"keccak", x>>

SERVER_KEY_REQUESTED_EVENT_NAME == "ServerKeyRequested(bytes32,uint256)"
SERVER_KEY_REQUESTED_EVENT_NAME_HASH == Keccak(SERVER_KEY_REQUESTED_EVENT_NAME)

VARIABLES
    registry,      \* the registry entry of "secretstore_service": None or Some(address)
    syncing,       \* sync.status().is_syncing(client.queue_info())
    ownerClient,   \* the owner still holds its Arc<Client>
    ownerSync,     \* the owner still holds its Arc<SyncProvider>
    contract,      \* self.contract: the cached handle [address, id]
    readers,       \* threads holding a read guard of self.contract
    pc,            \* per thread: position inside the running operation
    local,         \* per thread: locals of the running operation
    it,            \* per thread: the boxed iterator returned by read_pending_requests
    ret,           \* per thread: what the last completed call returned / did
    dummy          \* the fields of the DummyServiceContract of the tests

vars == <<registry, syncing, ownerClient, ownerSync, contract, readers, pc, local, it, ret,
          dummy>>

\* ------------------------------------------------------------- helpers
\* Option::unwrap_or_default on Option<Address>.
UnwrapOrDefault(r) == IF r = None THEN Zero ELSE r[1]

\* client.registry_address(SERVICE_CONTRACT_REGISTRY_NAME)
RegistryAddress == registry

\* SecretStoreService::new(address) wrapped in a fresh Arc.
NewHandle(address, id) == [address |-> address, id |-> id]

NoLocal == [k |-> "none"]
NoIter == [kind |-> "none"]
NoRet == [op |-> "none"]

\* Program positions at which a thread owns an upgraded Arc<Client>.
ClientPcs == {"update_resolve", "update_compare", "update_install",
              "pending_lock", "pending_count"}
\* Program positions at which a thread owns an upgraded Arc<SyncProvider>.
SyncPcs == {"update_resolve", "update_compare", "update_install"}

\* Weak<Client>::upgrade succeeds while any strong reference exists: the
\* owner's, one upgraded by a running call, or one kept by a live iterator.
ClientUpgrade ==
    \/ ownerClient
    \/ \E t \in Threads : pc[t] \in ClientPcs \/ it[t].kind = "pending"

\* Weak<SyncProvider>::upgrade.
SyncUpgrade ==
    \/ ownerSync
    \/ \E t \in Threads : pc[t] \in SyncPcs

Return(t, r) ==
    /\ pc' = [pc EXCEPT ![t] = "idle"]
    /\ local' = [local EXCEPT ![t] = NoLocal]
    /\ ret' = [ret EXCEPT ![t] = r]

Goto(t, label, l) ==
    /\ pc' = [pc EXCEPT ![t] = label]
    /\ local' = [local EXCEPT ![t] = l]
    /\ ret' = [ret EXCEPT ![t] = NoRet]

\* #[derive(Default)] of DummyServiceContract.
DummyDefault ==
    [is_actual |-> FALSE, logs |-> <<>>, pending_requests |-> <<>>, published_keys |-> <<>>]

\* ---------------------------------------------------------------- Init
\* OnChainServiceContract::new: the handle is built from the registry entry
\* read at construction.
Init ==
    /\ registry \in RegVals
    /\ syncing \in BOOLEAN
    /\ ownerClient = TRUE
    /\ ownerSync = TRUE
    /\ contract = NewHandle(UnwrapOrDefault(RegistryAddress), 1)
    /\ readers = {}
    /\ pc = [t \in Threads |-> "idle"]
    /\ local = [t \in Threads |-> NoLocal]
    /\ it = [t \in Threads |-> NoIter]
    /\ ret = [t \in Threads |-> NoRet]
    /\ dummy = DummyDefault

\* -------------------------------------------------------------- update
\* Other update() calls in flight mark each other as overlapping.
MarkOverlap(l, t) ==
    [u \in Threads |->
        IF u # t /\ l[u].k = "update" THEN [l[u] EXCEPT !.alone = FALSE] ELSE l[u]]

UpdateRunning(t) == \E u \in Threads \ {t} : local[u].k = "update"

\* Faulty variant: update() without the "do nothing until synced" return.
UpdateCheckSync_NoSyncGate(t) ==
    /\ pc[t] = "idle"
    /\ IF ClientUpgrade /\ SyncUpgrade
       THEN /\ pc' = [pc EXCEPT ![t] = "update_resolve"]
            /\ local' = [MarkOverlap(local, t) EXCEPT ![t] =
                           [k |-> "update", alone |-> ~UpdateRunning(t), addr |-> Zero]]
            /\ ret' = [ret EXCEPT ![t] = NoRet]
       ELSE Return(t, [op |-> "update", out |-> "skipped", alone |-> ~UpdateRunning(t),
                       stale |-> UnwrapOrDefault(RegistryAddress) # contract.address])
    /\ UNCHANGED <<dummy, registry, syncing, ownerClient, ownerSync, contract, readers, it>>

\* Lines 112-116: upgrade both weak references, return while syncing.
UpdateCheckSync(t) ==
    /\ pc[t] = "idle"
    /\ IF ClientUpgrade /\ SyncUpgrade /\ ~syncing
       THEN /\ pc' = [pc EXCEPT ![t] = "update_resolve"]
            /\ local' = [MarkOverlap(local, t) EXCEPT ![t] =
                           [k |-> "update", alone |-> ~UpdateRunning(t), addr |-> Zero]]
            /\ ret' = [ret EXCEPT ![t] = NoRet]
       ELSE Return(t, [op |-> "update", out |-> "skipped", alone |-> ~UpdateRunning(t),
                       stale |-> UnwrapOrDefault(RegistryAddress) # contract.address])
    /\ UNCHANGED <<dummy, registry, syncing, ownerClient, ownerSync, contract, readers, it>>

\* Line 119: service_contract_addr = registry_address(..).unwrap_or_default()
UpdateResolve(t) ==
    /\ pc[t] = "update_resolve"
    /\ Goto(t, "update_compare",
            [local[t] EXCEPT !.addr = UnwrapOrDefault(RegistryAddress)])
    /\ UNCHANGED <<dummy, registry, syncing, ownerClient, ownerSync, contract, readers, it>>

\* Faulty variant: update() that installs a new handle without comparing addresses.
UpdateCompare_AlwaysInstall(t) ==
    /\ pc[t] = "update_compare"
    /\ Goto(t, "update_install", local[t])
    /\ UNCHANGED <<dummy, registry, syncing, ownerClient, ownerSync, contract, readers, it>>

\* Line 120: the comparison under a read guard that is dropped at the end of
\* the condition.
UpdateCompare(t) ==
    /\ pc[t] = "update_compare"
    /\ IF contract.address # local[t].addr
       THEN Goto(t, "update_install", local[t])
       ELSE Return(t, [op |-> "update", out |-> "same", alone |-> local[t].alone])
    /\ UNCHANGED <<dummy, registry, syncing, ownerClient, ownerSync, contract, readers, it>>

\* Faulty variant: the new handle is built on the registrar's own address
\* instead of the address the registrar resolved.
UpdateInstall_RegistrarAddress(t) ==
    /\ pc[t] = "update_install"
    /\ readers = {}
    /\ contract.id < MaxHandles
    /\ contract' = NewHandle(MaxAddr, contract.id + 1)
    /\ Return(t, [op |-> "update", out |-> "replaced", alone |-> local[t].alone])
    /\ UNCHANGED <<dummy, registry, syncing, ownerClient, ownerSync, readers, it>>

\* Line 123: *self.contract.write() = Arc::new(SecretStoreService::new(addr)).
\* The write guard needs every read guard released.
UpdateInstall(t) ==
    /\ pc[t] = "update_install"
    /\ readers = {}
    /\ contract.id < MaxHandles
    /\ contract' = NewHandle(local[t].addr, contract.id + 1)
    /\ Return(t, [op |-> "update", out |-> "replaced", alone |-> local[t].alone])
    /\ UNCHANGED <<dummy, registry, syncing, ownerClient, ownerSync, readers, it>>

update(t) ==
    \/ UpdateCheckSync(t)
    \/ UpdateResolve(t)
    \/ UpdateCompare(t)
    \/ UpdateInstall(t)

\* ----------------------------------------------------------- is_actual
\* What the calling thread did just before this call: the outcome of its
\* update() if that was its previous call, "-" otherwise.
After(t) == IF ret[t].op = "update" THEN ret[t].out ELSE "-"

\* Faulty variant: is_actual() without the short circuit on the zero address.
IsActualAddress_NoZeroTest(t) ==
    /\ pc[t] = "idle"
    /\ Goto(t, "is_actual_sync",
            [k |-> "is_actual", addr |-> contract.address, after |-> After(t)])
    /\ readers' = readers \cup {t}
    /\ UNCHANGED <<dummy, registry, syncing, ownerClient, ownerSync, contract, it>>

\* Line 129: the address test under a read guard; a zero address
\* short-circuits the conjunction.  The guard is a temporary of the
\* function's tail expression: it is held until the function returns.
IsActualAddress(t) ==
    /\ pc[t] = "idle"
    /\ IF contract.address # Zero
       THEN /\ Goto(t, "is_actual_sync",
                    [k |-> "is_actual", addr |-> contract.address, after |-> After(t)])
            /\ readers' = readers \cup {t}
       ELSE /\ Return(t, [op |-> "is_actual", val |-> FALSE, after |-> After(t)])
            /\ UNCHANGED readers
    /\ UNCHANGED <<dummy, registry, syncing, ownerClient, ownerSync, contract, it>>

\* Faulty variant: is_actual() that answers from the chain state without checking
\* that the client and the sync provider are still there.
IsActualSync_NoLiveness(t) ==
    /\ pc[t] = "is_actual_sync"
    /\ Return(t, [op |-> "is_actual", val |-> ~syncing, after |-> local[t].after])
    /\ readers' = readers \ {t}
    /\ UNCHANGED <<dummy, registry, syncing, ownerClient, ownerSync, contract, it>>

\* Lines 130-133: the match on the two upgrades.
IsActualSync(t) ==
    /\ pc[t] = "is_actual_sync"
    /\ Return(t, [op |-> "is_actual",
                  val |-> IF ClientUpgrade /\ SyncUpgrade THEN ~syncing ELSE FALSE,
                  after |-> local[t].after])
    /\ readers' = readers \ {t}
    /\ UNCHANGED <<dummy, registry, syncing, ownerClient, ownerSync, contract, it>>

is_actual(t) ==
    \/ IsActualAddress(t)
    \/ IsActualSync(t)

\* ----------------------------------------------------------- read_logs
\* The chain's log entries, in the order the client returns them.
ChainLogs == <<
    [block |-> 1, address |-> 1, topics |-> <<SERVER_KEY_REQUESTED_EVENT_NAME_HASH, Keccak("a")>>],
    [block |-> 1, address |-> 2, topics |-> <<SERVER_KEY_REQUESTED_EVENT_NAME_HASH, Keccak("b")>>],
    [block |-> 1, address |-> 1, topics |-> <<Keccak("Other(bytes32)"), Keccak("c")>>],
    [block |-> 1, address |-> 0, topics |-> <<SERVER_KEY_REQUESTED_EVENT_NAME_HASH>>],
    [block |-> 2, address |-> 1, topics |-> <<>>],
    [block |-> 2, address |-> 1, topics |-> <<Keccak("d"), SERVER_KEY_REQUESTED_EVENT_NAME_HASH>>],
    [block |-> 2, address |-> 2, topics |-> <<Keccak("Other(bytes32)")>>],
    [block |-> 2, address |-> 1,
     topics |-> <<SERVER_KEY_REQUESTED_EVENT_NAME_HASH, Keccak("e"), Keccak("f")>>],
    [block |-> 2, address |-> 0, topics |-> <<Keccak("Other(bytes32)")>>],
    [block |-> 2, address |-> 2, topics |-> <<SERVER_KEY_REQUESTED_EVENT_NAME_HASH, Keccak("g")>>] >>

\* ethcore Filter::matches over the block range: the entry's address is one
\* of the filter's, and every constrained topic position holds one of the
\* listed topics.
FilterMatches(filter, log) ==
    /\ filter.from_block <= log.block
    /\ log.block <= filter.to_block
    /\ \/ filter.address = None
       \/ \E i \in 1..Len(filter.address[1]) : filter.address[1][i] = log.address
    /\ \A i \in 1..Len(filter.topics) :
          \/ filter.topics[i] = None
          \/ /\ i <= Len(log.topics)
             /\ \E j \in 1..Len(filter.topics[i][1]) : filter.topics[i][1][j] = log.topics[i]

\* BlockChainClient::logs(filter)
ClientLogs(filter) == SelectSeq(ChainLogs, LAMBDA log : FilterMatches(filter, log))

\* Faulty variant: the Filter with the first topic left unconstrained.
LogsFilter_AnyFirstTopic(first_block, last_block, contract_address) ==
    [from_block |-> first_block,
     to_block |-> last_block,
     address |-> Some(<<contract_address>>),
     topics |-> << None, None, None, None >>]

\* Lines 148-159: the Filter that read_logs builds.
LogsFilter(first_block, last_block, contract_address) ==
    [from_block |-> first_block,
     to_block |-> last_block,
     address |-> Some(<<contract_address>>),
     topics |-> << Some(<<SERVER_KEY_REQUESTED_EVENT_NAME_HASH>>), None, None, None >>]

\* Line 161: request_logs.into_iter().map(|log| log.entry.topics)
TopicsOf(logs) == [i \in 1..Len(logs) |-> logs[i].topics]

\* Faulty variant: read_logs that queries the logs without the test of the
\* client's upgrade.
read_logs_NoClientTest(t) ==
    /\ pc[t] = "idle"
    /\ \E first_block \in Blocks, last_block \in Blocks :
          Return(t, [op |-> "read_logs", first |-> first_block, last |-> last_block,
                     val |-> TopicsOf(ClientLogs(
                                LogsFilter(first_block, last_block, contract.address)))])
    /\ UNCHANGED <<dummy, registry, syncing, ownerClient, ownerSync, contract, readers, it>>

\* Lines 136-162.
read_logs(t) ==
    /\ pc[t] = "idle"
    /\ \E first_block \in Blocks, last_block \in Blocks :
          IF ~ClientUpgrade
          THEN Return(t, [op |-> "read_logs", first |-> first_block, last |-> last_block,
                          val |-> <<>>])
          ELSE Return(t, [op |-> "read_logs", first |-> first_block, last |-> last_block,
                          val |-> TopicsOf(ClientLogs(
                                     LogsFilter(first_block, last_block, contract.address)))])
    /\ UNCHANGED <<dummy, registry, syncing, ownerClient, ownerSync, contract, readers, it>>

\* ----------------------------------------------- read_pending_requests
\* Line 170: Box::new(::std::iter::empty())
EmptyIter == [kind |-> "empty"]

\* Lines 189-195: the PendingRequestsIterator, with the observations made of
\* it so far (how the length was obtained, the address tested for zero, the
\* address the count call went to if one was made, per-item calls made,
\* items yielded, calls failed, items yielded after a failed call).
PendingRequestsIterator(handle, length, how, tested, counted) ==
    [kind |-> "pending", contract |-> handle, index |-> 0, length |-> length,
     how |-> how, tested |-> tested, counted |-> counted,
     calls |-> 0, yielded |-> 0, failed |-> 0, late |-> 0]

\* Lines 165-172: the upgrade of the client.
PendingClient(t) ==
    /\ pc[t] = "idle"
    /\ IF ClientUpgrade
       THEN /\ Goto(t, "pending_lock", [k |-> "read_pending_requests"])
            /\ UNCHANGED it
       ELSE /\ Return(t, [op |-> "read_pending_requests", how |-> "offline"])
            /\ it' = [it EXCEPT ![t] = EmptyIter]
    /\ UNCHANGED <<dummy, registry, syncing, ownerClient, ownerSync, contract, readers>>

\* Faulty variant: the zero-address test under a guard that is dropped before
\* the count call.
PendingLock_GuardDropped(t) ==
    /\ pc[t] = "pending_lock"
    /\ IF contract.address = Zero
       THEN /\ Return(t, [op |-> "read_pending_requests", how |-> "zero"])
            /\ it' = [it EXCEPT ![t] =
                         PendingRequestsIterator(contract, 0, "zero", contract.address, None)]
       ELSE /\ Goto(t, "pending_count",
                    [k |-> "read_pending_requests", tested |-> contract.address])
            /\ UNCHANGED it
    /\ UNCHANGED <<dummy, registry, syncing, ownerClient, ownerSync, contract, readers>>

\* Lines 174-176: the read guard and the zero-address test.
PendingLock(t) ==
    /\ pc[t] = "pending_lock"
    /\ IF contract.address = Zero
       THEN /\ Return(t, [op |-> "read_pending_requests", how |-> "zero"])
            /\ it' = [it EXCEPT ![t] =
                         PendingRequestsIterator(contract, 0, "zero", contract.address, None)]
            /\ UNCHANGED readers
       ELSE /\ Goto(t, "pending_count",
                    [k |-> "read_pending_requests", tested |-> contract.address])
            /\ readers' = readers \cup {t}
            /\ UNCHANGED it
    /\ UNCHANGED <<dummy, registry, syncing, ownerClient, ownerSync, contract>>

\* Faulty variant: a failed count call leaves a non-zero length behind.
PendingCount_ErrKeepsLength(t) ==
    /\ pc[t] = "pending_count"
    /\ \E res \in {None} \cup {Some(n) : n \in 0..MaxLen} :
          LET length == IF res = None THEN MaxLen ELSE res[1]
              how == IF res = None THEN "count_err" ELSE "count_ok"
          IN  /\ it' = [it EXCEPT ![t] =
                           PendingRequestsIterator(contract, length, how, local[t].tested,
                                                   Some(contract.address))]
              /\ Return(t, [op |-> "read_pending_requests", how |-> how])
    /\ readers' = readers \ {t}
    /\ UNCHANGED <<dummy, registry, syncing, ownerClient, ownerSync, contract>>

\* Faulty variant: the read guard is moved into the iterator instead of being
\* dropped when read_pending_requests returns.
PendingCount_IteratorKeepsGuard(t) ==
    /\ pc[t] = "pending_count"
    /\ \E res \in {None} \cup {Some(n) : n \in 0..MaxLen} :
          LET length == IF res = None THEN 0 ELSE res[1]
              how == IF res = None THEN "count_err" ELSE "count_ok"
          IN  /\ it' = [it EXCEPT ![t] =
                           PendingRequestsIterator(contract, length, how, local[t].tested,
                                                   Some(contract.address))]
              /\ Return(t, [op |-> "read_pending_requests", how |-> how])
    /\ UNCHANGED <<dummy, registry, syncing, ownerClient, ownerSync, contract, readers>>

\* Lines 178-195: server_key_generation_requests_count under the guard
\* (a failed call counts as 0), then the iterator over a clone of the handle.
PendingCount(t) ==
    /\ pc[t] = "pending_count"
    /\ \E res \in {None} \cup {Some(n) : n \in 0..MaxLen} :
          LET length == IF res = None THEN 0 ELSE res[1]
              how == IF res = None THEN "count_err" ELSE "count_ok"
          IN  /\ it' = [it EXCEPT ![t] =
                           PendingRequestsIterator(contract, length, how, local[t].tested,
                                                   Some(contract.address))]
              /\ Return(t, [op |-> "read_pending_requests", how |-> how])
    /\ readers' = readers \ {t}
    /\ UNCHANGED <<dummy, registry, syncing, ownerClient, ownerSync, contract>>

read_pending_requests(t) ==
    \/ PendingClient(t)
    \/ PendingLock(t)
    \/ PendingCount(t)

\* ------------------------------------------ PendingRequestsIterator::next
ServerKeyIds == {"id1", "id2"}

\* U256 -> H256 of threshold.into(): the big-endian bytes of the number.
IntoH256(x) == <<"h256", x>>

GenerateServerKey(server_key_id, threshold) ==
    [task |-> "GenerateServerKey", id |-> server_key_id, threshold |-> threshold]

\* Outcomes of get_server_key_generation_request(..).wait(): an error, or
\* one of a few (server_key_id, threshold, is_confirmed) triples in which
\* every component takes two values.
RequestResults ==
    {[ok |-> FALSE],
     [ok |-> TRUE, server_key_id |-> "id1", threshold |-> "t0", is_confirmed |-> TRUE],
     [ok |-> TRUE, server_key_id |-> "id2", threshold |-> "t1", is_confirmed |-> FALSE],
     [ok |-> TRUE, server_key_id |-> "id1", threshold |-> "t1", is_confirmed |-> FALSE]}

NoneItem == [some |-> FALSE]
SomeItem(x) == [some |-> TRUE, item |-> x]

\* Faulty variant: the end test of next() off by one (index > length).
IterNext_OffByOne(i, res) ==
    IF i.index > i.length
    THEN [iter |-> i, val |-> NoneItem, call |-> <<>>]
    ELSE LET call == [address |-> i.contract.address, index |-> i.index]
             j == [i EXCEPT !.index = i.index + 1, !.calls = i.calls + 1]
         IN  IF res.ok
             THEN [iter |-> [j EXCEPT !.yielded = j.yielded + 1,
                                      !.late = IF j.failed > 0 THEN j.late + 1 ELSE j.late],
                   val |-> SomeItem(<<res.is_confirmed,
                                      GenerateServerKey(res.server_key_id, IntoH256(res.threshold))>>),
                   call |-> <<call>>]
             ELSE [iter |-> [j EXCEPT !.failed = j.failed + 1],
                   val |-> NoneItem,
                   call |-> <<call>>]

\* Faulty variant: next() that takes the length anew at every step instead of
\* keeping the one sampled at construction.
IterNext_RereadsLength(i, res) ==
    LET k == [i EXCEPT !.length = MaxLen]
    IN  IF k.index >= k.length
        THEN [iter |-> k, val |-> NoneItem, call |-> <<>>]
        ELSE LET call == [address |-> k.contract.address, index |-> k.index]
                 j == [k EXCEPT !.index = k.index + 1, !.calls = k.calls + 1]
             IN  IF res.ok
                 THEN [iter |-> [j EXCEPT !.yielded = j.yielded + 1,
                                          !.late = IF j.failed > 0 THEN j.late + 1 ELSE j.late],
                       val |-> SomeItem(<<res.is_confirmed,
                                          GenerateServerKey(res.server_key_id,
                                                            IntoH256(res.threshold))>>),
                       call |-> <<call>>]
                 ELSE [iter |-> [j EXCEPT !.failed = j.failed + 1],
                       val |-> NoneItem,
                       call |-> <<call>>]

\* Lines 226-248 on a PendingRequestsIterator.
IterNext(i, res) ==
    IF i.index >= i.length
    THEN [iter |-> i, val |-> NoneItem, call |-> <<>>]
    ELSE LET call == [address |-> i.contract.address, index |-> i.index]
             j == [i EXCEPT !.index = i.index + 1, !.calls = i.calls + 1]
         IN  IF res.ok
             THEN [iter |-> [j EXCEPT !.yielded = j.yielded + 1,
                                      !.late = IF j.failed > 0 THEN j.late + 1 ELSE j.late],
                   val |-> SomeItem(<<res.is_confirmed,
                                      GenerateServerKey(res.server_key_id, IntoH256(res.threshold))>>),
                   call |-> <<call>>]
             ELSE [iter |-> [j EXCEPT !.failed = j.failed + 1],
                   val |-> NoneItem,
                   call |-> <<call>>]

\* One next() on the boxed iterator a thread holds.
next(t) ==
    /\ pc[t] = "idle"
    /\ it[t].kind # "none"
    /\ IF it[t].kind = "empty"
       THEN /\ Return(t, [op |-> "next", val |-> NoneItem, call |-> <<>>])
            /\ UNCHANGED it
       ELSE \E res \in RequestResults :
               LET n == IterNext(it[t], res)
               IN  \* past the length no call is made: its outcome is not a choice
                   /\ (it[t].index >= it[t].length => ~res.ok)
                   /\ it' = [it EXCEPT ![t] = n.iter]
                   /\ Return(t, [op |-> "next", val |-> n.val, call |-> n.call])
    /\ UNCHANGED <<dummy, registry, syncing, ownerClient, ownerSync, contract, readers>>

\* The caller drops the boxed iterator.
DropIterator(t) ==
    /\ pc[t] = "idle"
    /\ it[t].kind # "none"
    /\ it' = [it EXCEPT ![t] = NoIter]
    /\ ret' = [ret EXCEPT ![t] = [op |-> "drop"]]
    /\ UNCHANGED <<dummy, registry, syncing, ownerClient, ownerSync, contract, readers, pc, local>>

\* -------------------------------------------------- publish_server_key
Publics == {"pk1", "pk2"}

\* NodeKeyPair::sign(&hash) then into_electrum(): the signature of this node
\* over the hash, as its (v, r, s) components.
Sign(hash) == [v |-> <<"v", hash>>, r |-> <<"r", hash>>, s |-> <<"s", hash>>]

\* SecretStoreService::encode_server_key_generated_input
EncodeServerKeyGeneratedInput(server_key_id, server_key, v, r, s) ==
    [fn |-> "serverKeyGenerated", id |-> server_key_id, key |-> server_key,
     v |-> v, r |-> r, s |-> s]

\* What a publish_server_key call returned, with what it did on the way:
\* the outcome of signing, of encoding ("-" when not reached) and of
\* transact_contract, the address tested for zero (if the test was reached)
\* and the transactions handed to the client.
PublishRet(l, val, sign, encode, transact, sent) ==
    [op |-> "publish_server_key", id |-> l.id, key |-> l.key, val |-> val,
     sign |-> sign, encode |-> encode, transact |-> transact, sent |-> sent,
     tested |-> l.tested]

\* Lines 199-201: hash and sign; a signing error is returned.
PublishSign(t) ==
    /\ pc[t] = "idle"
    /\ \E server_key_id \in ServerKeyIds, server_key \in Publics, signed \in BOOLEAN :
          LET l == [k |-> "publish_server_key", id |-> server_key_id, key |-> server_key,
                    sig |-> Sign(Keccak(server_key)), tested |-> None]
          IN  IF signed
              THEN Goto(t, "publish_encode", l)
              ELSE Return(t, PublishRet(l, "Err", "err", "-", "-", <<>>))
    /\ UNCHANGED <<dummy, registry, syncing, ownerClient, ownerSync, contract, readers, it>>

\* Lines 202-208: the read guard, then the encoding; an encoding error is
\* returned (the guard is dropped on the way out).
PublishEncode(t) ==
    /\ pc[t] = "publish_encode"
    /\ \E encoded \in BOOLEAN :
          IF encoded
          THEN /\ Goto(t, "publish_transact",
                       [k |-> "publish_server_key", id |-> local[t].id, key |-> local[t].key,
                        tested |-> None, handle |-> contract,
                        data |-> EncodeServerKeyGeneratedInput(local[t].id, local[t].key,
                                     local[t].sig.v, local[t].sig.r, local[t].sig.s)])
               /\ readers' = readers \cup {t}
          ELSE /\ Return(t, PublishRet(local[t], "Err", "ok", "err", "-", <<>>))
               /\ UNCHANGED readers
    /\ UNCHANGED <<dummy, registry, syncing, ownerClient, ownerSync, contract, it>>

\* Faulty variant: the submission without the zero-address test.
PublishTransact_NoZeroTest(t) ==
    /\ pc[t] = "publish_transact"
    /\ LET tx == [to |-> contract.address, data |-> local[t].data]
           l  == [local[t] EXCEPT !.tested = Some(contract.address)]
       IN  IF ClientUpgrade
           THEN \E submitted \in BOOLEAN :
                   IF submitted
                   THEN Return(t, PublishRet(l, "Ok", "ok", "ok", "ok", <<tx>>))
                   ELSE Return(t, PublishRet(l, "Err", "ok", "ok", "err", <<tx>>))
           ELSE Return(t, PublishRet(l, "Ok", "ok", "ok", "-", <<>>))
    /\ readers' = readers \ {t}
    /\ UNCHANGED <<dummy, registry, syncing, ownerClient, ownerSync, contract, it>>

\* Faulty variant: the result of transact_contract is dropped instead of returned.
PublishTransact_SwallowsError(t) ==
    /\ pc[t] = "publish_transact"
    /\ LET tx == [to |-> contract.address, data |-> local[t].data]
           l  == [local[t] EXCEPT !.tested = Some(contract.address)]
       IN  IF contract.address # Zero
           THEN IF ClientUpgrade
                THEN \E submitted \in BOOLEAN :
                        IF submitted
                        THEN Return(t, PublishRet(l, "Ok", "ok", "ok", "ok", <<tx>>))
                        ELSE Return(t, PublishRet(l, "Ok", "ok", "ok", "err", <<tx>>))
                ELSE Return(t, PublishRet(l, "Ok", "ok", "ok", "-", <<>>))
           ELSE Return(t, PublishRet(l, "Ok", "ok", "ok", "-", <<>>))
    /\ readers' = readers \ {t}
    /\ UNCHANGED <<dummy, registry, syncing, ownerClient, ownerSync, contract, it>>

\* Faulty variant: a failed submission also resets the cached handle to the zero
\* address.
PublishTransact_ResetsOnError(t) ==
    /\ pc[t] = "publish_transact"
    /\ LET tx == [to |-> contract.address, data |-> local[t].data]
           l  == [local[t] EXCEPT !.tested = Some(contract.address)]
       IN  IF contract.address # Zero
           THEN IF ClientUpgrade
                THEN \E submitted \in BOOLEAN :
                        IF submitted
                        THEN /\ Return(t, PublishRet(l, "Ok", "ok", "ok", "ok", <<tx>>))
                             /\ UNCHANGED contract
                        ELSE /\ Return(t, PublishRet(l, "Err", "ok", "ok", "err", <<tx>>))
                             /\ contract' = NewHandle(Zero, contract.id)
                ELSE /\ Return(t, PublishRet(l, "Ok", "ok", "ok", "-", <<>>))
                     /\ UNCHANGED contract
           ELSE /\ Return(t, PublishRet(l, "Ok", "ok", "ok", "-", <<>>))
                /\ UNCHANGED contract
    /\ readers' = readers \ {t}
    /\ UNCHANGED <<dummy, registry, syncing, ownerClient, ownerSync, it>>

\* Lines 210-219: the address test and the submission, through the guard.
PublishTransact(t) ==
    /\ pc[t] = "publish_transact"
    /\ LET tx == [to |-> contract.address, data |-> local[t].data]
           l  == [local[t] EXCEPT !.tested = Some(contract.address)]
       IN  IF contract.address # Zero
           THEN IF ClientUpgrade
                THEN \E submitted \in BOOLEAN :
                        IF submitted
                        THEN Return(t, PublishRet(l, "Ok", "ok", "ok", "ok", <<tx>>))
                        ELSE Return(t, PublishRet(l, "Err", "ok", "ok", "err", <<tx>>))
                ELSE Return(t, PublishRet(l, "Ok", "ok", "ok", "-", <<>>))
           ELSE Return(t, PublishRet(l, "Ok", "ok", "ok", "-", <<>>))
    /\ readers' = readers \ {t}
    /\ UNCHANGED <<dummy, registry, syncing, ownerClient, ownerSync, contract, it>>

publish_server_key(t) ==
    \/ PublishSign(t)
    \/ PublishEncode(t)
    \/ PublishTransact(t)

\* ------------------------------------------------ DummyServiceContract
\* The canned lists a test gives the double.
CannedLogs ==
    {<<>>,
     <<<<SERVER_KEY_REQUESTED_EVENT_NAME_HASH, Keccak("a")>>,
       <<SERVER_KEY_REQUESTED_EVENT_NAME_HASH, Keccak("b")>>>>}

CannedPendingRequests ==
    {<<>>,
     <<<<TRUE, GenerateServerKey("id1", IntoH256("t0"))>>,
       <<FALSE, GenerateServerKey("id2", IntoH256("t1"))>>>>}

\* A test builds the double with the fields it wants, the rest by default.
InitDummy ==
    /\ registry = None
    /\ syncing = FALSE
    /\ ownerClient = TRUE
    /\ ownerSync = TRUE
    /\ contract = NewHandle(Zero, 1)
    /\ readers = {}
    /\ pc = [t \in Threads |-> "idle"]
    /\ local = [t \in Threads |-> NoLocal]
    /\ it = [t \in Threads |-> NoIter]
    /\ ret = [t \in Threads |-> NoRet]
    /\ \E flag \in BOOLEAN, logs \in CannedLogs, pending_requests \in CannedPendingRequests :
          dummy = [DummyDefault EXCEPT !.is_actual = flag, !.logs = logs,
                                       !.pending_requests = pending_requests]

\* vec.clone().into_iter(): an iterator over a copy of the vector, with the
\* items taken from it so far.
VecIntoIter(of, vec) == [kind |-> "vec", of |-> of, items |-> vec, index |-> 0, got |-> <<>>]

\* Lines 286-287: update() has an empty body.
DummyUpdate(t) ==
    /\ pc[t] = "idle"
    /\ ret' = [ret EXCEPT ![t] = [op |-> "dummy.update"]]
    /\ UNCHANGED <<dummy, registry, syncing, ownerClient, ownerSync, contract, readers,
                   pc, local, it>>

\* Lines 289-291: is_actual() returns the field.
DummyIsActual(t) ==
    /\ pc[t] = "idle"
    /\ ret' = [ret EXCEPT ![t] = [op |-> "dummy.is_actual", val |-> dummy.is_actual]]
    /\ UNCHANGED <<dummy, registry, syncing, ownerClient, ownerSync, contract, readers,
                   pc, local, it>>

\* Lines 293-295: read_logs ignores the block range.
DummyReadLogs(t) ==
    /\ pc[t] = "idle"
    /\ \E first_block \in Blocks, last_block \in Blocks :
          ret' = [ret EXCEPT ![t] = [op |-> "dummy.read_logs", first |-> first_block,
                                     last |-> last_block]]
    /\ it' = [it EXCEPT ![t] = VecIntoIter("logs", dummy.logs)]
    /\ UNCHANGED <<dummy, registry, syncing, ownerClient, ownerSync, contract, readers,
                   pc, local>>

\* Lines 297-299.
DummyReadPendingRequests(t) ==
    /\ pc[t] = "idle"
    /\ ret' = [ret EXCEPT ![t] = [op |-> "dummy.read_pending_requests"]]
    /\ it' = [it EXCEPT ![t] = VecIntoIter("pending_requests", dummy.pending_requests)]
    /\ UNCHANGED <<dummy, registry, syncing, ownerClient, ownerSync, contract, readers,
                   pc, local>>

\* One next() on the iterator a read of the double returned.
DummyIterNext(t) ==
    /\ pc[t] = "idle"
    /\ it[t].kind = "vec"
    /\ IF it[t].index < Len(it[t].items)
       THEN LET x == it[t].items[it[t].index + 1]
            IN  /\ it' = [it EXCEPT ![t].index = @ + 1, ![t].got = Append(@, x)]
                /\ ret' = [ret EXCEPT ![t] = [op |-> "dummy.next", val |-> SomeItem(x)]]
       ELSE /\ ret' = [ret EXCEPT ![t] = [op |-> "dummy.next", val |-> NoneItem]]
            /\ UNCHANGED it
    /\ UNCHANGED <<dummy, registry, syncing, ownerClient, ownerSync, contract, readers,
                   pc, local>>

\* Faulty variant: the pair is put in front of the recorded ones.
DummyPublish_InFront(t) ==
    /\ pc[t] = "idle"
    /\ Len(dummy.published_keys) < MaxPublished
    /\ \E server_key_id \in ServerKeyIds, server_key \in Publics :
          /\ dummy' = [dummy EXCEPT !.published_keys = <<<<server_key_id, server_key>>>> \o @]
          /\ ret' = [ret EXCEPT ![t] = [op |-> "dummy.publish_server_key",
                                        id |-> server_key_id, key |-> server_key,
                                        val |-> "Ok"]]
    /\ UNCHANGED <<registry, syncing, ownerClient, ownerSync, contract, readers, pc, local, it>>

\* Lines 301-304: the pair is pushed under the mutex, Ok(()) is returned.
DummyPublish(t) ==
    /\ pc[t] = "idle"
    /\ Len(dummy.published_keys) < MaxPublished
    /\ \E server_key_id \in ServerKeyIds, server_key \in Publics :
          /\ dummy' = [dummy EXCEPT !.published_keys = Append(@, <<server_key_id, server_key>>)]
          /\ ret' = [ret EXCEPT ![t] = [op |-> "dummy.publish_server_key",
                                        id |-> server_key_id, key |-> server_key,
                                        val |-> "Ok"]]
    /\ UNCHANGED <<registry, syncing, ownerClient, ownerSync, contract, readers, pc, local, it>>

\* --------------------------------------------------------- environment
\* The registry entry of the service name changes on chain.
RegistryChange ==
    /\ registry' \in RegVals \ {registry}
    /\ UNCHANGED <<dummy, syncing, ownerClient, ownerSync, contract, readers, pc, local, it, ret>>

\* The chain starts or stops syncing.
SyncChange ==
    /\ syncing' = ~syncing
    /\ UNCHANGED <<dummy, registry, ownerClient, ownerSync, contract, readers, pc, local, it, ret>>

\* The owner drops its Arc<Client> (shutdown).
DropClient ==
    /\ ownerClient
    /\ ownerClient' = FALSE
    /\ UNCHANGED <<dummy, registry, syncing, ownerSync, contract, readers, pc, local, it, ret>>

\* The owner drops its Arc<SyncProvider>.
DropSync ==
    /\ ownerSync
    /\ ownerSync' = FALSE
    /\ UNCHANGED <<dummy, registry, syncing, ownerClient, contract, readers, pc, local, it, ret>>

\* Every operation, called from every thread, over a changing chain.
Next ==
    \/ \E t \in Threads : update(t)
    \/ \E t \in Threads : is_actual(t)
    \/ \E t \in Threads : read_logs(t)
    \/ \E t \in Threads : read_pending_requests(t)
    \/ \E t \in Threads : next(t)
    \/ \E t \in Threads : DropIterator(t)
    \/ \E t \in Threads : publish_server_key(t)
    \/ RegistryChange
    \/ SyncChange
    \/ DropClient
    \/ DropSync

Spec == Init /\ [][Next]_vars

\* In the specifications below one thread consumes the read operations.
Consumers == {1}
Updaters == Threads \ Consumers

\* The locator/cache alone: update() from every thread, is_actual() from the
\* consumer.
NextCache ==
    \/ \E t \in Threads : update(t)
    \/ \E t \in Consumers : is_actual(t)
    \/ RegistryChange
    \/ SyncChange
    \/ DropClient
    \/ DropSync

SpecCache == Init /\ [][NextCache]_vars

\* The enumerator, with update() running beside it in the other threads.
NextPending ==
    \/ \E t \in Updaters : update(t)
    \/ \E t \in Consumers : read_pending_requests(t)
    \/ \E t \in Consumers : next(t)
    \/ \E t \in Consumers : DropIterator(t)
    \/ RegistryChange
    \/ SyncChange
    \/ DropClient

SpecPending == Init /\ [][NextPending]_vars

\* The publisher, with update() running beside it in the other threads.
NextPublish ==
    \/ \E t \in Updaters : update(t)
    \/ \E t \in Consumers : publish_server_key(t)
    \/ RegistryChange
    \/ SyncChange
    \/ DropClient

SpecPublish == Init /\ [][NextPublish]_vars

\* The log reader, with update() running beside it in the other threads.
NextLogs ==
    \/ \E t \in Updaters : update(t)
    \/ \E t \in Consumers : read_logs(t)
    \/ RegistryChange
    \/ SyncChange
    \/ DropClient

SpecLogs == Init /\ [][NextLogs]_vars

\* Every operation that reads the handle, with update() running beside
\* them.  The consumer walks one enumeration at a time and drops it before
\* it calls another operation.
NoIterHeld(t) == it[t].kind = "none"

NextReaders ==
    \/ \E t \in Updaters : update(t)
    \/ \E t \in Consumers : NoIterHeld(t) /\ is_actual(t)
    \/ \E t \in Consumers : NoIterHeld(t) /\ read_logs(t)
    \/ \E t \in Consumers : NoIterHeld(t) /\ publish_server_key(t)
    \/ \E t \in Consumers : NoIterHeld(t) /\ read_pending_requests(t)
    \/ \E t \in Consumers : next(t)
    \/ \E t \in Consumers : DropIterator(t)
    \/ RegistryChange
    \/ DropClient

SpecReaders == Init /\ [][NextReaders]_vars

\* The driver's gate: the chain state settles before the first call, then
\* the threads call update() and is_actual() against it.
BeforeCalls == \A t \in Threads : pc[t] = "idle" /\ ret[t] = NoRet

NextGate ==
    \/ \E t \in Threads : update(t)
    \/ \E t \in Threads : is_actual(t)
    \/ BeforeCalls /\ RegistryChange
    \/ BeforeCalls /\ SyncChange
    \/ DropClient
    \/ DropSync

SpecGate == Init /\ [][NextGate]_vars

\* The operations that upgrade the weak references, with the owner dropping
\* its client and its sync provider at any time.
NextDegrade ==
    \/ \E t \in Updaters : update(t)
    \/ \E t \in Consumers : NoIterHeld(t) /\ is_actual(t)
    \/ \E t \in Consumers : NoIterHeld(t) /\ read_logs(t)
    \/ \E t \in Consumers : NoIterHeld(t) /\ read_pending_requests(t)
    \/ \E t \in Consumers : next(t)
    \/ \E t \in Consumers : DropIterator(t)
    \/ RegistryChange
    \/ DropClient
    \/ DropSync

SpecDegrade == Init /\ [][NextDegrade]_vars

\* Every operation against a settled chain state, with the scheduling the
\* lock gives: a call that has started goes on while it can (the chain's
\* calls return), and an update() waiting for the write guard gets it if the
\* guard is free again and again (the lock is fair to writers).
NextLive ==
    \/ \E t \in Threads : update(t)
    \/ \E t \in Consumers : NoIterHeld(t) /\ is_actual(t)
    \/ \E t \in Consumers : NoIterHeld(t) /\ read_logs(t)
    \/ \E t \in Consumers : NoIterHeld(t) /\ publish_server_key(t)
    \/ \E t \in Consumers : NoIterHeld(t) /\ read_pending_requests(t)
    \/ \E t \in Consumers : next(t)
    \/ \E t \in Consumers : DropIterator(t)
    \/ BeforeCalls /\ RegistryChange
    \/ BeforeCalls /\ SyncChange
    \/ DropClient

Running(t) ==
    /\ pc[t] # "idle"
    /\ (update(t) \/ is_actual(t) \/ read_pending_requests(t) \/ publish_server_key(t))

Fairness ==
    \A t \in Threads : WF_vars(Running(t)) /\ SF_vars(UpdateInstall(t))

SpecLive == Init /\ [][NextLive]_vars /\ Fairness

\* The test double, called from every thread.
NextDummy ==
    \/ \E t \in Threads : DummyUpdate(t)
    \/ \E t \in Threads : DummyIsActual(t)
    \/ \E t \in Consumers : DummyReadLogs(t)
    \/ \E t \in Consumers : DummyReadPendingRequests(t)
    \/ \E t \in Consumers : DummyIterNext(t)
    \/ \E t \in Threads : DummyPublish(t)

SpecDummy == InitDummy /\ [][NextDummy]_vars

TypeOK ==
    /\ contract.address \in Addresses
    /\ contract.id \in 1..MaxHandles
    /\ readers \subseteq Threads

\* ================================================================ claims

\* C1 (as stated): is_actual() returns true if and only if the cached
\* address is non-zero and the chain is not syncing.
C1_IsActualIffAddressAndSynced ==
    [][\A t \in Threads :
          (is_actual(t) /\ pc'[t] = "idle")
             => (ret'[t].val <=> (contract.address # Zero /\ ~syncing))]_vars

\* C1 (amended): is_actual() returns true if and only if the cached address
\* is non-zero, the chain client and the sync provider are both still
\* available, and the chain is not syncing; so it is false whenever the
\* address is zero and false whenever the chain is syncing.
C1_IsActualGate ==
    [][\A t \in Threads :
          (is_actual(t) /\ pc'[t] = "idle")
             => /\ ret'[t].val <=>
                      (contract.address # Zero /\ ClientUpgrade /\ SyncUpgrade /\ ~syncing)
                /\ contract.address = Zero => ~ret'[t].val
                /\ syncing => ~ret'[t].val]_vars

\* is_actual() has returned false on a non-zero address of a synced chain
\* whose client is gone.
C1_Witness ==
    \E t \in Threads :
       /\ ret[t].op = "is_actual"
       /\ ~ret[t].val
       /\ contract.address # Zero
       /\ ~syncing
       /\ ~ClientUpgrade

\* C2: update() returns without touching the cached handle whenever the
\* chain is syncing or the client or the sync provider is unavailable,
\* whatever the registry resolves to.
C2_UpdateSkipsLeaveHandle ==
    [][\A t \in Threads :
          (UpdateCheckSync(t) /\ (syncing \/ ~ClientUpgrade \/ ~SyncUpgrade))
             => /\ pc'[t] = "idle"
                /\ ret'[t].out = "skipped"
                /\ contract' = contract]_vars

\* An update() was skipped at a moment when the registry resolved to another
\* address than the cached one.
C2_Witness ==
    \E t \in Threads :
       /\ ret[t].op = "update"
       /\ ret[t].out = "skipped"
       /\ ret[t].stale

\* C3: an update() that no other update() overlaps, past the sync gate,
\* returns with the cached address equal to the address it resolved from the
\* registry (zero for no entry); the handle stays the one cached when the
\* call began until the call's last step, which installs a fresh handle if
\* and only if the resolved address differs from the cached one and
\* otherwise leaves the handle as it was.
C3_UpdateInstallsResolved ==
    [][\A t \in Threads :
          /\ UpdateResolve(t)
                => local'[t].addr = (IF registry = None THEN Zero ELSE registry[1])
          /\ (local[t].k = "update" /\ local[t].alone /\ pc'[t] # "idle")
                => contract' = contract
          /\ (update(t) /\ pc[t] \in {"update_compare", "update_install"}
                /\ pc'[t] = "idle" /\ local[t].alone)
                => /\ contract'.address = local[t].addr
                   /\ (contract' # contract) <=> (local[t].addr # contract.address)
                   /\ (contract' # contract) => contract'.id > contract.id
                   /\ (contract' # contract) <=> (ret'[t].out = "replaced")]_vars

\* An update() running alone has replaced the handle, here by one for the
\* zero address after the registry entry was removed.
C3_Witness ==
    \E t \in Threads :
       /\ ret[t].op = "update"
       /\ ret[t].out = "replaced"
       /\ ret[t].alone
       /\ registry = None
       /\ contract = NewHandle(Zero, contract.id)
       /\ contract.id > 1

\* C4: an enumeration of declared length L never yields more than L items,
\* yields fewer than L once any per-item call has failed, and has yielded
\* exactly L when it is exhausted with every per-item call successful.
C4_EnumerationYieldsAtMostLength ==
    \A t \in Threads :
       it[t].kind = "pending" =>
          /\ it[t].yielded <= it[t].length
          /\ it[t].failed > 0 => it[t].yielded < it[t].length
          /\ (it[t].failed = 0 /\ it[t].index >= it[t].length) => it[t].yielded = it[t].length
          /\ it[t].yielded + it[t].failed = it[t].calls

\* An enumeration of the greatest length was walked to its end with one
\* failed call in the middle.
C4_Witness ==
    \E t \in Threads :
       /\ it[t].kind = "pending"
       /\ it[t].length = MaxLen
       /\ it[t].index = it[t].length
       /\ it[t].failed = 1
       /\ it[t].yielded = it[t].length - 1

\* C5 (as stated): once a per-item call of an enumeration has failed, that
\* enumeration issues no further per-item call and yields no further item.
C5_FailureEndsEnumeration ==
    \A t \in Threads :
       (it[t].kind = "pending" /\ it[t].failed > 0) =>
          /\ it[t].failed = 1
          /\ it[t].late = 0

\* C9: read_pending_requests() gives an empty sequence when the client is
\* unreachable (no chain call), when the cached address is zero (length 0,
\* the count call not issued) and when the count call fails (length 0); no
\* next() on such a sequence issues a per-item call or yields an item.
C9_SoftFailuresGiveEmpty ==
    \A t \in Threads :
       /\ (ret[t].op = "read_pending_requests" /\ ret[t].how = "offline")
             => it[t] = EmptyIter
       /\ (ret[t].op = "read_pending_requests" /\ ret[t].how # "offline")
             => (it[t].kind = "pending" /\ it[t].how = ret[t].how /\ it[t].index = 0)
       /\ it[t].kind = "pending"
             => /\ (it[t].contract.address = Zero) <=> (it[t].how = "zero")
                /\ it[t].how \in {"zero", "count_err"}
                      => /\ it[t].length = 0
                         /\ it[t].index = 0
                         /\ it[t].calls = 0
                         /\ it[t].yielded = 0
       /\ (/\ ret[t].op = "next"
           /\ \/ it[t].kind = "empty"
              \/ (it[t].kind = "pending" /\ it[t].how \in {"zero", "count_err"}))
             => (ret[t].val = NoneItem /\ ret[t].call = <<>>)

\* next() was called on an enumeration whose count call had failed, with
\* the contract installed.
C9_Witness ==
    \E t \in Threads :
       /\ ret[t].op = "next"
       /\ it[t].kind = "pending"
       /\ it[t].how = "count_err"
       /\ it[t].contract.address # Zero

\* C6 (as stated): a publish_server_key call made while the cached address
\* is zero returns success and submits no transaction.
C6_ZeroAddressPublishSucceeds ==
    [][\A t \in Threads :
          (publish_server_key(t) /\ pc'[t] = "idle" /\ contract.address = Zero)
             => (ret'[t].val = "Ok" /\ ret'[t].sent = <<>>)]_vars

\* C6 (amended): a publish_server_key call whose signing and encoding
\* succeed and that finds the cached address zero returns success and
\* submits no transaction; a call whose signing or encoding fails returns
\* that error, zero address or not, also without submitting.  Nothing of the
\* call is kept: its locals are gone and no guard stays held.
C6_ZeroAddressPublishDropped ==
    [][\A t \in Threads :
          /\ (PublishTransact(t) /\ contract.address = Zero)
                => /\ ret'[t].val = "Ok"
                   /\ ret'[t].sent = <<>>
                   /\ ret'[t].transact = "-"
                   /\ local'[t] = NoLocal
                   /\ t \notin readers'
          /\ (publish_server_key(t) /\ pc'[t] = "idle" /\ contract.address = Zero)
                => /\ ret'[t].sent = <<>>
                   /\ (ret'[t].val = "Ok") <=> (ret'[t].sign = "ok" /\ ret'[t].encode = "ok")]_vars

\* A publish was accepted and dropped on the zero address.
C6_Witness ==
    \E t \in Threads :
       /\ ret[t].op = "publish_server_key"
       /\ ret[t].val = "Ok"
       /\ ret[t].sent = <<>>
       /\ contract.address = Zero
       /\ ClientUpgrade

\* C7: publish_server_key returns an error whenever signing, encoding or the
\* submission fails; after a signing or encoding failure nothing was
\* submitted; no call hands more than one transaction to the client, and a
\* failed submission is not repeated.
C7_PublishErrorsPropagate ==
    \A t \in Threads :
       ret[t].op = "publish_server_key" =>
          /\ (ret[t].sign = "err" \/ ret[t].encode = "err" \/ ret[t].transact = "err")
                => ret[t].val = "Err"
          /\ (ret[t].sign = "err" \/ ret[t].encode = "err")
                => (ret[t].sent = <<>> /\ ret[t].transact = "-")
          /\ Len(ret[t].sent) <= 1
          /\ (ret[t].transact # "-") <=> (Len(ret[t].sent) = 1)

\* A publish returned the error of a failed submission, after one attempt.
C7_Witness ==
    \E t \in Threads :
       /\ ret[t].op = "publish_server_key"
       /\ ret[t].transact = "err"
       /\ ret[t].val = "Err"
       /\ Len(ret[t].sent) = 1

\* The topic lists, in chain order, of the entries of blocks first..last that
\* address emitted and whose first topic is the ServerKeyRequested hash.
RECURSIVE ExpectedTopics(_, _, _, _)
ExpectedTopics(n, first, last, address) ==
    IF n = 0
    THEN <<>>
    ELSE LET e == ChainLogs[n]
             rest == ExpectedTopics(n - 1, first, last, address)
         IN  IF /\ first <= e.block
                /\ e.block <= last
                /\ e.address = address
                /\ Len(e.topics) >= 1
                /\ e.topics[1] = SERVER_KEY_REQUESTED_EVENT_NAME_HASH
             THEN Append(rest, e.topics)
             ELSE rest

\* C8: read_logs(first, last) returns, in the client's order, exactly the
\* topic lists of the entries of that block range emitted by the address
\* cached at the call and whose first topic is the ServerKeyRequested hash;
\* with the client unreachable it returns the empty sequence.
C8_ReadLogsFilter ==
    [][\A t \in Threads :
          read_logs(t) =>
             ret'[t].val =
                IF ClientUpgrade
                THEN ExpectedTopics(Len(ChainLogs), ret'[t].first, ret'[t].last,
                                    contract.address)
                ELSE <<>>]_vars

\* read_logs returned several entries of the installed contract.
C8_Witness ==
    \E t \in Threads :
       /\ ret[t].op = "read_logs"
       /\ Len(ret[t].val) >= 2
       /\ contract.address # Zero

\* ------------------------------------------------------------ migration
\* The two addresses of the migration scenario.
AddrA == CHOOSE a \in Addresses \ {Zero} : \A b \in Addresses \ {Zero} : a <= b
AddrB == CHOOSE b \in Addresses \ {Zero, AddrA} : \A c \in Addresses \ {Zero, AddrA} : b <= c

\* The instance is constructed on a synced chain whose registry holds A.
InitMigration ==
    /\ Init
    /\ registry = Some(AddrA)
    /\ ~syncing

\* The registry entry migrates from A to B, once.
Migrate ==
    /\ registry = Some(AddrA)
    /\ registry' = Some(AddrB)
    /\ UNCHANGED <<dummy, syncing, ownerClient, ownerSync, contract, readers, pc, local, it, ret>>

\* update() from every thread around one migration of the registry entry.
NextMigration ==
    \/ \E t \in Threads : update(t)
    \/ \E t \in Threads : is_actual(t)
    \/ Migrate

SpecMigration == InitMigration /\ [][NextMigration]_vars

\* C10 (as stated): around one migration of the registry from A to B the
\* cached handle is replaced exactly once, the handle for A by a handle for
\* B: no update() replaces it a second time or puts a handle for A back.
C10_MigrationReplacesOnce ==
    [][contract' # contract =>
          (contract.address = AddrA /\ contract'.address = AddrB)]_vars

\* C11: a reader sees one handle for the whole of a call.  While
\* publish_server_key or the construction of an enumeration is between its
\* zero-address test and its use of the address, the cached handle is the
\* one the reader's guard was taken on; a submitted transaction goes to the
\* address that was tested for zero; and in an enumeration the address
\* tested for zero, the address of the count call and the address of every
\* per-item call are the address of the handle cloned into the iterator,
\* whatever update() has installed since.
C11_ReaderSeesOneHandle ==
    \A t \in Threads :
       /\ pc[t] = "publish_transact" => local[t].handle = contract
       /\ (ret[t].op = "publish_server_key" /\ ret[t].sent # <<>>)
             => /\ ret[t].tested = Some(ret[t].sent[1].to)
                /\ ret[t].sent[1].to # Zero
       /\ pc[t] = "pending_count" => local[t].tested = contract.address
       /\ it[t].kind = "pending"
             => /\ it[t].tested = it[t].contract.address
                /\ it[t].counted \in {None, Some(it[t].contract.address)}
                /\ (it[t].counted = None) <=> (it[t].contract.address = Zero)
       /\ (it[t].kind = "pending" /\ ret[t].op = "next" /\ ret[t].call # <<>>)
             => ret[t].call[1].address = it[t].contract.address

\* A per-item call of an enumeration has gone to the address of the
\* iterator's handle after update() replaced the cached handle by one with
\* another address, and the count call went to the iterator's address too.
C11_Witness ==
    \E t \in Threads :
       /\ it[t].kind = "pending"
       /\ it[t].contract.address # contract.address
       /\ it[t].counted = Some(it[t].contract.address)
       /\ ret[t].op = "next"
       /\ ret[t].call # <<>>
       /\ ret[t].call[1].address = it[t].contract.address

\* C12 (as stated): whenever the registry resolves the service name to the
\* zero address (or has no entry), is_actual() returns false, also for an
\* instance constructed while the registry still held a non-zero address.
C12_ZeroRegistryNeverActual ==
    [][\A t \in Threads :
          (is_actual(t) /\ pc'[t] = "idle" /\ registry = None) => ~ret'[t].val]_vars

\* C12 (amended): with the chain state unchanged since before update()
\* began, update() followed by is_actual() returns true if the registry
\* resolves to a non-zero address, the chain is not syncing and the client
\* and the sync provider are still available, and returns false, whatever
\* the sync state, if the registry resolves to the zero address or has no
\* entry; is_actual() returns false whenever the cached address is zero.
C12_ScenarioGate ==
    [][\A t \in Threads :
          (is_actual(t) /\ pc'[t] = "idle")
             => /\ (ret'[t].after # "-" /\ registry # None /\ ~syncing
                      /\ ClientUpgrade /\ SyncUpgrade) => ret'[t].val
                /\ (ret'[t].after # "-" /\ registry = None) => ~ret'[t].val
                /\ contract.address = Zero => ~ret'[t].val]_vars

\* is_actual() has returned true right after an update() that replaced a
\* handle built at construction from another registry entry.
C12_Witness ==
    \E t \in Threads :
       /\ ret[t].op = "is_actual"
       /\ ret[t].val
       /\ ret[t].after = "replaced"
       /\ registry = Some(contract.address)
       /\ contract.id > 1

\* C13: the test double.  The canned fields never change; published_keys
\* changes only by a publish_server_key call, which appends the pair it was
\* given and returns Ok; update() changes nothing; is_actual() returns the
\* flag; read_logs (for any block range) and read_pending_requests return an
\* iterator over the whole canned list from its start, and the iterator
\* yields the items of that list in order and ends after its last one.
C13_DummyConforms ==
    [][/\ dummy'.is_actual = dummy.is_actual
       /\ dummy'.logs = dummy.logs
       /\ dummy'.pending_requests = dummy.pending_requests
       /\ dummy'.published_keys # dummy.published_keys
             => \E t \in Threads :
                   /\ ret'[t].op = "dummy.publish_server_key"
                   /\ dummy'.published_keys =
                         Append(dummy.published_keys, <<ret'[t].id, ret'[t].key>>)
       /\ \A t \in Threads :
             /\ DummyPublish(t)
                   => /\ Len(dummy'.published_keys) = Len(dummy.published_keys) + 1
                      /\ ret'[t].val = "Ok"
             /\ DummyUpdate(t) => (dummy' = dummy /\ it' = it)
             /\ DummyIsActual(t) => ret'[t].val = dummy.is_actual
             /\ DummyReadLogs(t) => it'[t] = VecIntoIter("logs", dummy.logs)
             /\ DummyReadPendingRequests(t)
                   => it'[t] = VecIntoIter("pending_requests", dummy.pending_requests)
             /\ DummyIterNext(t)
                   => LET list == IF it[t].of = "logs" THEN dummy.logs
                                  ELSE dummy.pending_requests
                      IN  IF ret'[t].val.some
                          THEN /\ it'[t].got = Append(it[t].got, ret'[t].val.item)
                               /\ it'[t].got = SubSeq(list, 1, Len(it'[t].got))
                          ELSE /\ it[t].got = list
                               /\ it'[t] = it[t]]_vars

\* Two different pairs have been published, recorded in call order, and an
\* iterator over the canned logs has been read to its end.
C13_Witness ==
    /\ Len(dummy.published_keys) = 2
    /\ dummy.published_keys[1] # dummy.published_keys[2]
    /\ \E t \in Threads :
          /\ ret[t].op = "dummy.publish_server_key"
          /\ dummy.published_keys[2] = <<ret[t].id, ret[t].key>>
    /\ \E t \in Threads :
          /\ it[t].kind = "vec"
          /\ it[t].of = "logs"
          /\ Len(it[t].got) = 2
          /\ it[t].got = dummy.logs

\* C14 (as stated): a next() that reaches the chain makes one per-item call,
\* for the index that follows the previous call's (0, 1, 2, ... without gaps
\* or repeats), and the k-th item yielded, counting from 0, is built from
\* the call for index k.
C14_KthItemFromCallK ==
    \A t \in Threads :
       (it[t].kind = "pending" /\ ret[t].op = "next")
          => /\ Len(ret[t].call) <= 1
             /\ ret[t].call # <<>>
                   => /\ ret[t].call[1].index = it[t].calls - 1
                      /\ ret[t].call[1].index = it[t].index - 1
             /\ ret[t].val.some
                   => /\ ret[t].call # <<>>
                      /\ ret[t].call[1].index = it[t].yielded - 1

\* C15: the length of an enumeration is the one sampled when it was
\* constructed.  No step of a walk changes the length (or the handle) of the
\* iterator a thread holds; every per-item call uses an index i with
\* 0 <= i < length; and once index has reached the length, next() ends the
\* sequence without a call.
C15_LengthFixedAtConstruction ==
    [][\A t \in Threads :
          (it[t].kind = "pending" /\ it'[t].kind = "pending"
             /\ pc[t] = "idle" /\ pc'[t] = "idle")
             => /\ it'[t].length = it[t].length
                /\ it'[t].contract = it[t].contract
                /\ (it'[t] # it[t] \/ ret'[t] # ret[t])
                      => /\ ret'[t].op = "next"
                         /\ ret'[t].call # <<>>
                               => /\ 0 <= ret'[t].call[1].index
                                  /\ ret'[t].call[1].index < it[t].length
                         /\ it[t].index >= it[t].length
                               => (ret'[t].call = <<>> /\ ~ret'[t].val.some)]_vars

\* A walk over an enumeration of the largest sampled length has ended at
\* that length, its last call having used the index length - 1.
C15_Witness ==
    \E t \in Threads :
       /\ it[t].kind = "pending"
       /\ it[t].length = MaxLen
       /\ it[t].calls = it[t].length
       /\ it[t].index = it[t].length
       /\ ret[t].op = "next"
       /\ ret[t].call = <<>>
       /\ ~ret[t].val.some

\* C16: the cached address is zero or an address the registry returned.  At
\* construction it is the registry's answer (zero for no entry); the address
\* an update() carries from line 119 on is the registry's answer at that
\* line (zero for no entry) and does not change afterwards; and the cached
\* address changes only when an update() installs the address it carries.
C16_CachedAddressFromRegistry ==
    /\ contract.address = UnwrapOrDefault(registry)
    /\ [][/\ \A t \in Threads :
              /\ (pc[t] = "update_resolve" /\ pc'[t] # "update_resolve")
                    => /\ pc'[t] = "update_compare"
                       /\ local'[t].addr = IF registry = None THEN Zero ELSE registry[1]
              /\ (pc[t] \in {"update_compare", "update_install"}
                     /\ pc'[t] \in {"update_compare", "update_install"})
                    => local'[t].addr = local[t].addr
          /\ contract' # contract
                => \E t \in Threads :
                      /\ pc[t] = "update_install"
                      /\ pc'[t] = "idle"
                      /\ contract'.address = local[t].addr]_vars

\* update() has installed a non-zero address that the registry returned to
\* it and has since stopped returning.
C16_Witness ==
    /\ contract.id > 1
    /\ contract.address # Zero
    /\ registry # Some(contract.address)
    /\ \E t \in Threads : ret[t].op = "update" /\ ret[t].out = "replaced"

\* C17: only update() changes the cached handle.  A step that changes it is
\* the install step of one thread's update(), and in that step no other
\* thread moves, returns anything or touches its enumeration: no step of
\* is_actual(), read_logs(), read_pending_requests(), next() on an
\* enumeration, the dropping of an enumeration or publish_server_key()
\* changes the handle, whatever the call returns.
C17_OnlyUpdateChangesHandle ==
    [][contract' # contract
          => \E t \in Threads :
                /\ pc[t] = "update_install"
                /\ pc'[t] = "idle"
                /\ ret'[t].op = "update"
                /\ it' = it
                /\ \A u \in Threads \ {t} : pc'[u] = pc[u] /\ ret'[u] = ret[u]]_vars

\* A publish has failed at the submission after update() replaced the
\* handle the instance was constructed with; the cached handle is still the
\* one update() installed, and the transaction went to its address.
C17_Witness ==
    \E t \in Threads :
       /\ ret[t].op = "publish_server_key"
       /\ ret[t].val = "Err"
       /\ ret[t].transact = "err"
       /\ contract.id = 2
       /\ ret[t].sent[1].to = contract.address

\* C18: no operation blocks for ever on the handle's lock.  A read guard is
\* held only by a thread inside the operation that took it (a thread
\* holding an enumeration, walked or not, holds none), and every call that
\* has started returns; in particular an update() waiting for the write
\* guard gets it.
C18_NoBlockingOnLock ==
    /\ [](\A t \in readers : pc[t] # "idle")
    /\ \A t \in Threads : (pc[t] # "idle") ~> (pc[t] = "idle")
    /\ \A t \in Threads :
          (pc[t] = "update_install") ~> (ret[t].op = "update" /\ ret[t].out = "replaced")

\* update() has taken the write guard and replaced the handle while the
\* other thread holds an unfinished enumeration, and no read guard is held.
C18_Witness ==
    \E t \in Threads, u \in Threads :
       /\ ret[t].op = "update"
       /\ ret[t].out = "replaced"
       /\ it[u].kind = "pending"
       /\ it[u].index < it[u].length
       /\ it[u].contract # contract
       /\ readers = {}

C20_DegradeWhenEitherIsGone ==
    [][\A t \in Threads :
          (~ClientUpgrade \/ ~SyncUpgrade)
             => /\ UpdateCheckSync(t) => (ret'[t].out = "skipped" /\ contract' = contract)
                /\ (is_actual(t) /\ pc'[t] = "idle") => ~ret'[t].val
                /\ read_logs(t) => ret'[t].val = <<>>
                /\ (read_pending_requests(t) /\ pc'[t] = "idle")
                      => (it'[t].kind = "empty" \/ it'[t].length = 0)]_vars

\* C20 (amended): with the client or the sync provider gone, update() does
\* nothing and is_actual() returns false; with the client gone, read_logs()
\* and read_pending_requests() return empty sequences (they do not use the
\* sync provider); and an enumeration that has been constructed goes on
\* making its per-item calls, up to its length, whether or not the owner
\* still holds the client.
C20_DegradeWhenGone ==
    [][\A t \in Threads :
          /\ (~ClientUpgrade \/ ~SyncUpgrade)
                => /\ UpdateCheckSync(t)
                         => (ret'[t].out = "skipped" /\ contract' = contract)
                   /\ (is_actual(t) /\ pc'[t] = "idle") => ~ret'[t].val
          /\ ~ClientUpgrade
                => /\ read_logs(t) => ret'[t].val = <<>>
                   /\ read_pending_requests(t)
                         => (pc'[t] = "idle" /\ it'[t] = EmptyIter)
          /\ (next(t) /\ it[t].kind = "pending" /\ it[t].index < it[t].length)
                => ret'[t].call # <<>>]_vars

\* An enumeration has made a per-item call after the owner dropped its
\* client, and update() has been skipped because the sync provider is gone.
C20_Witness ==
    /\ ~ownerClient
    /\ ~SyncUpgrade
    /\ \E t \in Threads :
          /\ it[t].kind = "pending"
          /\ ret[t].op = "next"
          /\ ret[t].call # <<>>
    /\ \E u \in Threads : ret[u].op = "update" /\ ret[u].out = "skipped"

============================================================================
